---------------------------- MODULE Spec2Model ----------------------------
(***************************************************************************)
(* Model of firebase-to-llm.py: the command-line entry point, the          *)
(* recursive collection dump (dump_collection) and the fallback JSON       *)
(* serializer (json_serializer).                                           *)
(*                                                                         *)
(* The remote store and the client library are the environment: every      *)
(* answer of the store (how many documents a stream yields, where it       *)
(* fails, which subcollections a document has, what a field holds) is      *)
(* chosen when the program asks for it; `env` counts the unusual ones.     *)
(*                                                                         *)
(* Two specifications:                                                     *)
(*   Spec     one run of the script, from argument parsing to exit;        *)
(*   SerSpec  json_serializer applied to one value drawn from Values.      *)
(***************************************************************************)
EXTENDS Integers, Sequences, FiniteSets, TLC

VARIABLES
    pc,                 \* position of the main script
    exit_code,          \* process exit status, NoExit while running
    args,               \* parsed command line (argparse namespace)
    apps,               \* firebase_admin._apps: "" or the project of the app
    actual_project_id,  \* firebase_admin.get_app().project_id, "" before
    roots,              \* len(top_level_collections)
    rootIdx,            \* root collections already handed to dump_collection
    stack,              \* call stack of dump_collection frames
    out,                \* what the last step printed to standard output
    env,                \* how the environment has answered so far
    obj,                \* SerSpec: the argument of json_serializer
    ret                 \* SerSpec: its outcome, NoResult before the call

vars == <<pc, exit_code, args, apps, actual_project_id, roots, rootIdx,
          stack, out, env, obj, ret>>

(***************************************************************************)
(* Bounds of the model.                                                    *)
(***************************************************************************)
MaxRoots == 2         \* top-level collections the store lists
MaxSubCalls == 2      \* subcollections listed in one run, all documents
MaxIncidents == 1     \* store failures and non-primitive fields of one run
MaxRemoteDocs == 6    \* documents a large remote collection holds
MaxDepthArg == 1      \* --max-depth ranges over -1 .. MaxDepthArg
MaxBigCollections == 1 \* collections of a run holding MaxRemoteDocs documents
MaxBusyDocs == 2      \* leading documents of a collection that may hold
                      \* subcollections or a non-primitive field

\* line 78: limit_count = 5
limit_count == 5

Min(a, b) == IF a < b THEN a ELSE b

(***************************************************************************)
(* Text.  A string the program builds is a sequence of one-character       *)
(* strings (or of opaque tokens where the program copies text through).    *)
(***************************************************************************)
Digit(d) == <<"0", "1", "2", "3", "4", "5", "6", "7", "8", "9">>[d + 1]

\* n in decimal, zero-padded to `width` digits ('{:0Nd}'.format(n))
RECURSIVE Pad(_, _)
Pad(n, width) ==
    IF width = 0 THEN <<>>
    ELSE Pad(n \div 10, width - 1) \o <<Digit(n % 10)>>

\* proleptic Gregorian date of the day `days` after 1970-01-01 (days >= 0)
CivilFromDays(days) ==
    LET z == days + 719468
        era == z \div 146097
        doe == z - era * 146097
        yoe == (doe - doe \div 1460 + doe \div 36524 - doe \div 146096) \div 365
        doy == doe - (365 * yoe + yoe \div 4 - yoe \div 100)
        mp == (5 * doy + 2) \div 153
        d == doy - (153 * mp + 2) \div 5 + 1
        m == IF mp < 10 THEN mp + 3 ELSE mp - 9
        y == yoe + era * 400 + (IF m <= 2 THEN 1 ELSE 0)
    IN  [year |-> y, month |-> m, day |-> d]

\* a datetime: seconds since the epoch (UTC), microsecond, tz-aware or naive
DateTime(secs, micro, aware) == [secs |-> secs, micro |-> micro, aware |-> aware]

\* "YYYY-MM-DDTHH:MM:SS" of a datetime
IsoSeconds(dt) ==
    LET c == CivilFromDays(dt.secs \div 86400)
        t == dt.secs % 86400
    IN  Pad(c.year, 4) \o <<"-">> \o Pad(c.month, 2) \o <<"-">> \o Pad(c.day, 2)
        \o <<"T">> \o Pad(t \div 3600, 2) \o <<":">> \o Pad((t % 3600) \div 60, 2)
        \o <<":">> \o Pad(t % 60, 2)

\* datetime.isoformat appends the UTC offset of an aware datetime
UtcOffset(dt) ==
    IF dt.aware THEN <<"+", "0", "0", ":", "0", "0">> ELSE <<>>

\* datetime.isoformat(timespec="milliseconds"): microseconds cut to 3 digits
IsoFormatMillis(dt) ==
    IsoSeconds(dt) \o <<".">> \o Pad(dt.micro \div 1000, 3) \o UtcOffset(dt)

\* datetime.isoformat(): the fraction appears only when it is not zero
IsoFormat(dt) ==
    IsoSeconds(dt)
    \o (IF dt.micro = 0 THEN <<>> ELSE <<".">> \o Pad(dt.micro, 6))
    \o UtcOffset(dt)

\* Timestamp.ToDatetime(): naive UTC datetime, nanos rounded toward zero
ToDatetime(v) == DateTime(v.seconds, v.nanos \div 1000, FALSE)

\* datetime.replace(tzinfo=datetime.timezone.utc)
ReplaceTzUtc(dt) == DateTime(dt.secs, dt.micro, TRUE)

\* datetime.fromtimestamp(seconds + nanos / 1e9, tz=utc): the fraction is
\* rounded to the nearest microsecond, carrying into the seconds
FromTimestampUtc(seconds, nanos) ==
    LET q == nanos \div 1000
        r == nanos % 1000
        us == IF r > 500 \/ (r = 500 /\ q % 2 = 1) THEN q + 1 ELSE q
    IN  IF us >= 1000000 THEN DateTime(seconds + 1, us - 1000000, TRUE)
        ELSE DateTime(seconds, us, TRUE)

(***************************************************************************)
(* Values of document fields, by what json_serializer asks of them.        *)
(*   cls      the class isinstance sees                                    *)
(*   toDt     hasattr(obj, "ToDatetime")                                   *)
(*   hasSecs  obj.seconds and obj.nanos exist                              *)
(*   eq       obj == firestore.SERVER_TIMESTAMP: "true", "false", "raises" *)
(*   dumps    json.dumps(obj): "ok", "TypeError", "ValueError"             *)
(*   str      str(obj): "ok", "raises"                                     *)
(***************************************************************************)
Value(cls, toDt, hasSecs, seconds, nanos, eq, dumps, str) ==
    [cls |-> cls, toDt |-> toDt, hasSecs |-> hasSecs, seconds |-> seconds,
     nanos |-> nanos, eq |-> eq, dumps |-> dumps, str |-> str]

TsSeconds == {0, 59, 86399, 951782400, 1709294400}
TsNanos == {0, 999999, 123456789, 1999900, 999999999}

\* google.protobuf Timestamp: seconds, nanos and ToDatetime
Timestamps ==
    {Value("Timestamp", TRUE, TRUE, s, n, "false", "TypeError", "ok") :
        s \in TsSeconds, n \in TsNanos}

\* a timestamp-like value of either class that exposes only seconds and nanos
BareTimestamps ==
    {Value(c, FALSE, TRUE, s, n, "false", "TypeError", "ok") :
        c \in {"Timestamp", "Sentinel"}, s \in TsSeconds, n \in TsNanos}

\* firestore.SERVER_TIMESTAMP itself: an instance of its own class, equal to
\* itself; whether that class carries timestamp fields is the library's choice
Sentinels ==
    {Value("Sentinel", th[1], th[2], 0, 0, "true", "TypeError", "ok") :
        th \in {<<FALSE, FALSE>>, <<FALSE, TRUE>>, <<TRUE, TRUE>>}}

SERVER_TIMESTAMP == Value("Sentinel", FALSE, FALSE, 0, 0, "true", "TypeError", "ok")

\* references and points (they compare equal only to their own kind)
Structured ==
    {Value(c, FALSE, FALSE, 0, 0, "false", "TypeError", st) :
        c \in {"DocumentReference", "GeoPoint"}, st \in {"ok", "raises"}}

\* values of other classes, every answer they can give to rules 4 and 6
Others ==
    {Value(c, FALSE, FALSE, s, n, e, d, st) :
        c \in {"datetime", "other"},
        s \in {0, 1709294400}, n \in {0, 123456000},
        e \in {"true", "false", "raises"},
        d \in {"ok", "TypeError", "ValueError"},
        st \in {"ok", "raises"}}

Values == Timestamps \cup BareTimestamps \cup Sentinels \cup Structured \cup Others

(***************************************************************************)
(* json_serializer (lines 20-60).                                          *)
(***************************************************************************)
NoResult == [kind |-> "none", form |-> "none", text |-> <<>>, exc |-> "none", warn |-> FALSE]

Return(form, text) ==
    [kind |-> "return", form |-> form, text |-> text, exc |-> "none", warn |-> FALSE]

Raise(exc) ==
    [kind |-> "raise", form |-> "none", text |-> <<>>, exc |-> exc, warn |-> FALSE]

\* line 22: isinstance(obj, (firestore.SERVER_TIMESTAMP.__class__, FirestoreTimestamp))
IsTimestampLike(v) == v.cls \in {"Sentinel", "Timestamp"}

\* lines 24-30
SerializeTimestamp(v) ==
    IF v.toDt
    THEN Return("str", IsoFormatMillis(ReplaceTzUtc(ToDatetime(v))) \o <<"Z">>)
    ELSE IF v.hasSecs
    THEN Return("str", IsoFormatMillis(FromTimestampUtc(v.seconds, v.nanos)) \o <<"Z">>)
    ELSE Raise("AttributeError")

\* lines 46-60
SerializeDefault(v) ==
    CASE v.dumps = "ok" -> Return("same", <<>>)
      [] v.dumps = "TypeError" ->
            IF v.str = "ok" THEN Return("str", <<"str(obj)">>) ELSE Raise("StrError")
      [] OTHER ->
            [Return("str", <<"Unserializable(", v.cls, ")">>) EXCEPT !.warn = TRUE]

json_serializer(v) ==
    CASE IsTimestampLike(v) -> SerializeTimestamp(v)
      [] v.cls = "DocumentReference" -> Return("str", <<"Reference(path='", "obj.path", "')">>)
      [] v.cls = "GeoPoint" -> Return("mapping", <<"latitude", "longitude">>)
      [] v.eq = "raises" -> Raise("EqError")
      [] v.eq = "true" -> Return("str", <<"firestore.SERVER_TIMESTAMP">>)
      [] v.cls = "datetime" ->
            Return("str", IsoFormat(DateTime(v.seconds, v.nanos \div 1000, FALSE)))
      [] OTHER -> SerializeDefault(v)


(***************************************************************************)
(* json.dumps(doc_data, default=json_serializer) (lines 101-105).  The     *)
(* encoder renders a natively serializable field itself and hands every    *)
(* other field to the hook; an exception of the hook leaves json.dumps.    *)
(***************************************************************************)
Encode(v) == IF v.dumps = "ok" THEN Return("same", <<>>) ELSE json_serializer(v)

JsonDumps(fields) == [i \in DOMAIN fields |-> Encode(fields[i])]

DumpsRaises(fields) == \E i \in DOMAIN fields : Encode(fields[i]).kind = "raise"

(***************************************************************************)
(* Documents the store serves during a run.                                *)
(***************************************************************************)
Prim == Value("other", FALSE, FALSE, 0, 0, "false", "ok", "ok")
Obj == Value("other", FALSE, FALSE, 0, 0, "false", "TypeError", "ok")
BadStr == Value("other", FALSE, FALSE, 0, 0, "false", "TypeError", "raises")

\* field values the encoder hands to json_serializer
HookValues == {Obj, BadStr, SERVER_TIMESTAMP}

PlainFields == <<Prim>>

\* field mappings: primitives, with at most one field that needs the hook
DocFields == {PlainFields} \cup {<<Prim, v>> : v \in HookValues}

(***************************************************************************)
(* Output events and the record of the environment's answers.              *)
(***************************************************************************)
Event(ev, col, doc, name, data) ==
    [ev |-> ev, col |-> col, doc |-> doc, name |-> name, data |-> data]

Msg(ev, name) == Event(ev, <<>>, 0, name, <<>>)

NoExit == -1
NoFail == -1
NoArgs == [project_id |-> "", max_depth |-> 0, no_limit |-> FALSE]
KeyProject == "key-project"

\* startup: what went wrong before the traversal ("none" if nothing did)
\* faults: failures of streams and of subcollection listings so far
\* specials: documents served so far with a field that needs the hook
\* subs: subcollections listed so far;  big: large collections served so far
NoEnv == [startup |-> "none", faults |-> 0, specials |-> 0, subs |-> 0, big |-> 0]

\* what is left of the budget of unusual answers
IncidentsLeft == MaxIncidents - env.faults - env.specials

(***************************************************************************)
(* The main script (lines 133-244).                                        *)
(***************************************************************************)
\* sys.exit(code)
Exit(code) == /\ pc' = "exit"
              /\ exit_code' = code

\* line 159: parser.parse_args().  A rejected command line leaves through
\* parser.error (status 2), -h through parser.exit (status 0).
ParseArgs ==
    /\ pc = "start"
    /\ \E outcome \in {"ok", "usage_error", "help"} :
         IF outcome = "ok"
         THEN /\ \E p \in {"", "override-project"}, d \in (-1)..MaxDepthArg, nl \in BOOLEAN :
                    args' = [project_id |-> p, max_depth |-> d, no_limit |-> nl]
              /\ pc' = "parsed"
              /\ UNCHANGED <<exit_code, env>>
         ELSE /\ Exit(IF outcome = "help" THEN 0 ELSE 2)
              /\ env' = [env EXCEPT !.startup = outcome]
              /\ UNCHANGED args
    /\ out' = <<>>
    /\ UNCHANGED <<apps, actual_project_id, roots, rootIdx, stack, obj, ret>>

\* lines 165-171
CheckKeyFile ==
    /\ pc = "parsed"
    /\ \E exists \in BOOLEAN :
         IF ~exists
         THEN /\ out' = <<Msg("key_not_found", "")>>
              /\ env' = [env EXCEPT !.startup = "key_missing"]
              /\ Exit(1)
         ELSE /\ out' = <<Msg("starting", "")>>
              /\ pc' = "load"
              /\ UNCHANGED <<env, exit_code>>
    /\ UNCHANGED <<args, apps, actual_project_id, roots, rootIdx, stack, obj, ret>>

\* firebase_admin.initialize_app(credential, options): the project of the new
\* app is options["projectId"] when given, else the credential's project
initialize_app(cred_project, options_project) ==
    IF options_project # "" THEN options_project ELSE cred_project

\* lines 189-202: init_options receives the override, and a new app is made
\* from the credential alone; an existing app is reused
AppAfterInit(registry, cred_project, override) ==
    IF registry = "" THEN initialize_app(cred_project, "") ELSE registry

\* what can fail inside the try block of lines 173-208
StartupFailures ==
    {"key_unreadable", "key_invalid", "credential_rejected", "init_fails", "client_fails"}

\* lines 173-215
Bootstrap ==
    /\ pc = "load"
    /\ \E failure \in {"none"} \cup StartupFailures :
         LET early == failure \in {"key_unreadable", "key_invalid", "credential_rejected"}
             said == IF args.project_id # ""
                     THEN <<Msg("using_override", args.project_id)>> ELSE <<>>
             how == IF apps = "" THEN <<Msg("init_new", "")>>
                    ELSE <<Msg("already_initialized", "")>>
         IN  /\ failure = "init_fails" => apps = ""
             /\ CASE early ->
                       /\ out' = <<Msg("init_error", failure)>>
                       /\ UNCHANGED <<apps, actual_project_id>>
                  [] failure = "init_fails" ->
                       /\ out' = said \o <<Msg("init_attempt", ""), Msg("init_error", failure)>>
                       /\ UNCHANGED <<apps, actual_project_id>>
                  [] failure = "client_fails" ->
                       /\ apps' = AppAfterInit(apps, KeyProject, args.project_id)
                       /\ out' = said \o how \o <<Msg("init_error", failure)>>
                       /\ UNCHANGED actual_project_id
                  [] OTHER ->
                       /\ apps' = AppAfterInit(apps, KeyProject, args.project_id)
                       /\ actual_project_id' = apps'
                       /\ out' = said \o how \o <<Msg("initialized", apps')>>
             /\ IF failure = "none"
                THEN /\ pc' = "list"
                     /\ UNCHANGED <<env, exit_code>>
                ELSE /\ env' = [env EXCEPT !.startup = failure]
                     /\ Exit(1)
    /\ UNCHANGED <<args, roots, rootIdx, stack, obj, ret>>

\* faulty variant: the handler of lines 242-244 catches SystemExit as well
NoDataExitCaught(caught) == 1

\* lines 224-227 and 242-244: the status of the run that finds no collection.
\* sys.exit(0) raises SystemExit, which `except Exception` does not catch.
NoDataExit(caught) == IF caught THEN 1 ELSE 0

\* lines 218-232
ListRoot ==
    /\ pc = "list"
    /\ \E failed \in BOOLEAN, k \in 0..MaxRoots :
         CASE failed ->
                /\ k = 0
                /\ out' = <<Msg("unexpected_error", "")>>
                /\ env' = [env EXCEPT !.startup = "listing_fails"]
                /\ Exit(1)
                /\ UNCHANGED roots
           [] k = 0 ->
                /\ out' = <<Msg("no_collections", ""), Msg("complete_no_data", "")>>
                /\ Exit(NoDataExit(FALSE))
                /\ UNCHANGED <<env, roots>>
           [] OTHER ->
                /\ out' = <<Msg("found", "")>>
                /\ roots' = k
                /\ pc' = "traverse"
                /\ UNCHANGED <<env, exit_code>>
    /\ UNCHANGED <<args, apps, actual_project_id, rootIdx, stack, obj, ret>>

(***************************************************************************)
(* dump_collection (lines 64-129), one frame per active call.              *)
(*   phase "call"  called, nothing done yet                                *)
(*   phase "iter"  inside the for loop over docs_stream                    *)
(*   phase "subs"  inside the for loop over sub_col_list                   *)
(* A collection is named by its path: the index of a root collection, then *)
(* alternately the index of a document in the order of the stream and the  *)
(* index of a subcollection in the order of doc_ref.collections().         *)
(***************************************************************************)
Frame(col, depth, max_depth, no_limit) ==
    [col |-> col, depth |-> depth, max_depth |-> max_depth, no_limit |-> no_limit,
     phase |-> "call", yield |-> 0, failAt |-> NoFail, remote |-> 0,
     doc_count |-> 0, nsub |-> 0, sub |-> 0]

Top == stack[Len(stack)]

\* the stack with its top frame replaced
WithTop(f) == [stack EXCEPT ![Len(stack)] = f]

\* return from the top call: its frame goes, the frames of the callers stay
Unwind(stk) == SubSeq(stk, 1, Len(stk) - 1)

\* faulty variant: the exception leaves the failing call and ends its caller too
CaughtByCaller(stk) == SubSeq(stk, 1, Len(stk) - 2)

\* lines 76 and 125-129: an exception raised inside the try block of a call
\* is handled by that call, which then returns
Caught(stk) == Unwind(stk)

\* faulty variant: the limit is taken one level too deep
DepthExceededLate(current_depth, max_depth) == current_depth > max_depth + 1

\* line 66
DepthExceeded(current_depth, max_depth) == current_depth > max_depth

\* faulty variant: the query is never limited
StreamLenUnlimited(remote, no_limit) == remote

\* lines 81-93: documents the stream of the query can yield, of `remote`
\* documents in the collection
StreamLen(remote, no_limit) ==
    IF no_limit THEN remote ELSE Min(remote, limit_count)

\* sizes of remote collections
RemoteSizes == {0, 1, MaxRemoteDocs}

\* where a stream of m documents may fail: at once, after one, at the end
FailPoints(m) == {0, m} \cup ({1} \cap 0..m)

\* lines 234-237: the call of main for the next top-level collection
\* (current_depth takes its default 0)
CallRoot ==
    /\ pc = "traverse"
    /\ stack = <<>>
    /\ rootIdx < roots
    /\ rootIdx' = rootIdx + 1
    /\ stack' = <<Frame(<<rootIdx + 1>>, 0, args.max_depth, args.no_limit)>>
    /\ out' = <<>>
    /\ UNCHANGED <<pc, exit_code, args, apps, actual_project_id, roots, env, obj, ret>>

\* lines 66-70: the depth limit
DepthStop ==
    /\ pc = "traverse"
    /\ stack # <<>>
    /\ Top.phase = "call"
    /\ DepthExceeded(Top.depth, Top.max_depth)
    /\ out' = <<Event("depth_limit", Top.col, 0, "", <<>>)>>
    /\ stack' = Unwind(stack)
    /\ UNCHANGED <<pc, exit_code, args, apps, actual_project_id, roots, rootIdx, env, obj, ret>>

\* lines 72-93: the banner of the collection and the query
Fetch ==
    /\ pc = "traverse"
    /\ stack # <<>>
    /\ Top.phase = "call"
    /\ ~DepthExceeded(Top.depth, Top.max_depth)
    /\ \E remote \in RemoteSizes :
         LET m == StreamLen(remote, Top.no_limit)
         IN  \E fail \in {NoFail} \cup FailPoints(m) :
               /\ remote > 1 => env.big < MaxBigCollections
               /\ fail # NoFail => IncidentsLeft > 0
               /\ stack' = WithTop([Top EXCEPT !.phase = "iter", !.yield = m,
                                               !.failAt = fail, !.remote = remote])
               /\ env' = [env EXCEPT !.faults = @ + (IF fail # NoFail THEN 1 ELSE 0),
                                     !.big = @ + (IF remote > 1 THEN 1 ELSE 0)]
    /\ out' = <<Event("processing", Top.col, 0, "", <<>>),
                Event(IF Top.no_limit THEN "fetch_all" ELSE "fetch_limited",
                      Top.col, 0, "", <<>>)>>
    /\ UNCHANGED <<pc, exit_code, args, apps, actual_project_id, roots, rootIdx, obj, ret>>

\* lines 125-129: what the handler of the call prints
Warned(f, cause) == Event("warning", f.col, 0, cause, <<>>)

\* lines 94-118 for one document of the stream
NextDoc ==
    /\ pc = "traverse"
    /\ stack # <<>>
    /\ Top.phase = "iter"
    /\ Top.doc_count < Top.yield
    /\ Top.failAt # Top.doc_count
    /\ \E fields \in DocFields, listing \in {"ok", "fails"}, k \in 0..MaxSubCalls :
         LET n == Top.doc_count + 1
             header == Event("doc_header", Top.col, n, "", <<>>)
             data == Event("doc_data", Top.col, n, "", JsonDumps(fields))
             f == [Top EXCEPT !.doc_count = n]
             special == IF fields # PlainFields THEN 1 ELSE 0
         IN  /\ fields # PlainFields \/ listing = "fails" \/ k > 0 => n <= MaxBusyDocs
             /\ fields # PlainFields \/ listing = "fails" => IncidentsLeft > 0
             /\ listing = "fails" => k = 0 /\ fields = PlainFields
             /\ env.subs + k <= MaxSubCalls
             /\ IF DumpsRaises(fields)
                THEN /\ listing = "ok" /\ k = 0
                     /\ out' = <<header, Warned(Top, "serialize")>>
                     /\ stack' = Caught(stack)
                     /\ env' = [env EXCEPT !.specials = @ + 1]
                ELSE IF listing = "fails"
                THEN /\ out' = <<header, data, Warned(Top, "collections")>>
                     /\ stack' = Caught(stack)
                     /\ env' = [env EXCEPT !.faults = @ + 1]
                ELSE /\ out' = <<header, data>>
                             \o (IF k > 0 THEN <<Event("check_subs", Top.col, n, "", <<>>)>>
                                 ELSE <<>>)
                     /\ stack' = WithTop([f EXCEPT !.nsub = k, !.sub = 0,
                                                   !.phase = IF k > 0 THEN "subs" ELSE "iter"])
                     /\ env' = [env EXCEPT !.subs = @ + k, !.specials = @ + special]
    /\ UNCHANGED <<pc, exit_code, args, apps, actual_project_id, roots, rootIdx, obj, ret>>

\* faulty variant: the subcollections are taken last first
NextSubReversed(done, nsub) == nsub - done

\* line 114: the subcollection the loop takes after `done` of them
NextSub(done, nsub) == done + 1

\* line 116: the depth handed to the recursive call
ChildDepth(current_depth) == current_depth + 1

\* line 116: the no_limit handed to the recursive call
ChildNoLimit(no_limit) == no_limit

\* lines 114-117: the recursive call for the next subcollection
CallSub ==
    /\ pc = "traverse"
    /\ stack # <<>>
    /\ Top.phase = "subs"
    /\ Top.sub < Top.nsub
    /\ LET s == NextSub(Top.sub, Top.nsub)
           done == Top.sub + 1
           caller == [Top EXCEPT !.sub = done,
                                 !.phase = IF done = Top.nsub THEN "iter" ELSE "subs"]
           callee == Frame(Top.col \o <<Top.doc_count, s>>, ChildDepth(Top.depth),
                           Top.max_depth, ChildNoLimit(Top.no_limit))
       IN  stack' = Append(WithTop(caller), callee)
    /\ out' = <<>>
    /\ UNCHANGED <<pc, exit_code, args, apps, actual_project_id, roots, rootIdx, env, obj, ret>>

\* lines 93-94 and 125-129: the stream raises
StreamFails ==
    /\ pc = "traverse"
    /\ stack # <<>>
    /\ Top.phase = "iter"
    /\ Top.failAt = Top.doc_count
    /\ out' = <<Warned(Top, "stream")>>
    /\ stack' = Caught(stack)
    /\ UNCHANGED <<pc, exit_code, args, apps, actual_project_id, roots, rootIdx, env, obj, ret>>

\* faulty variant: the notice does not look at the count
EmptyNoticeAlways(doc_count) == doc_count >= 0

\* line 120
EmptyNoticeDue(doc_count) == doc_count = 0

\* lines 120-123: the stream is exhausted
EndOfStream ==
    /\ pc = "traverse"
    /\ stack # <<>>
    /\ Top.phase = "iter"
    /\ Top.doc_count = Top.yield
    /\ Top.failAt = NoFail
    /\ out' = IF EmptyNoticeDue(Top.doc_count)
              THEN <<Event("empty_notice", Top.col, 0, "", <<>>)>>
              ELSE <<>>
    /\ stack' = Unwind(stack)
    /\ UNCHANGED <<pc, exit_code, args, apps, actual_project_id, roots, rootIdx, env, obj, ret>>

\* lines 239-240, then the script ends
Banner ==
    /\ pc = "traverse"
    /\ stack = <<>>
    /\ rootIdx = roots
    /\ out' = <<Msg("banner", actual_project_id)>>
    /\ Exit(0)
    /\ UNCHANGED <<args, apps, actual_project_id, roots, rootIdx, stack, env, obj, ret>>

(***************************************************************************)
(* Spec: one run of the script.                                            *)
(***************************************************************************)
Init ==
    /\ pc = "start"
    /\ exit_code = NoExit
    /\ args = NoArgs
    /\ apps = ""
    /\ actual_project_id = ""
    /\ roots = 0
    /\ rootIdx = 0
    /\ stack = <<>>
    /\ out = <<>>
    /\ env = NoEnv
    /\ obj = Prim
    /\ ret = NoResult

Next ==
    \/ ParseArgs
    \/ CheckKeyFile
    \/ Bootstrap
    \/ ListRoot
    \/ CallRoot
    \/ DepthStop
    \/ Fetch
    \/ NextDoc
    \/ CallSub
    \/ StreamFails
    \/ EndOfStream
    \/ Banner

Spec == Init /\ [][Next]_vars

(***************************************************************************)
(* SerSpec: json_serializer called on one value.                           *)
(***************************************************************************)
CallSerializer ==
    /\ ret = NoResult
    /\ ret' = json_serializer(obj)
    /\ UNCHANGED <<obj, pc, exit_code, args, apps, actual_project_id, roots, rootIdx,
                   stack, out, env>>

SerInit ==
    /\ pc = "start"
    /\ exit_code = NoExit
    /\ args = NoArgs
    /\ apps = ""
    /\ actual_project_id = ""
    /\ roots = 0
    /\ rootIdx = 0
    /\ stack = <<>>
    /\ out = <<>>
    /\ env = NoEnv
    /\ obj \in Values
    /\ ret = NoResult

SerNext == CallSerializer

SerSpec == SerInit /\ [][SerNext]_vars


(***************************************************************************)
(* Properties.                                                             *)
(***************************************************************************)
\* depth of a collection, from its path
Depth(col) == (Len(col) - 1) \div 2

Frames == {stack[i] : i \in DOMAIN stack}

Printed(ev) == \E j \in DOMAIN out : out[j].ev = ev

\* startup failures that end the run
Fatal == {"key_missing", "listing_fails"} \cup StartupFailures

\* C1: a call of dump_collection on a collection deeper than max_depth prints
\* the depth-limit notice and nothing else: such a collection is never fetched
\* (its frame never leaves phase "call", no document of it is counted), no
\* call is made for a collection below it (its frame is the top of the stack)
\* and every line printed for a collection deeper than max_depth is that notice.
C1_DepthLimitIsHardStop ==
    /\ \A i \in DOMAIN stack :
          (stack[i].depth > args.max_depth \/ Depth(stack[i].col) > args.max_depth)
          => /\ i = Len(stack)
             /\ stack[i].phase = "call"
             /\ stack[i].doc_count = 0
    /\ \A j \in DOMAIN out :
          (out[j].col # <<>> /\ Depth(out[j].col) > args.max_depth)
          => out = <<Event("depth_limit", out[j].col, 0, "", <<>>)>>

\* C1 witness: the notice has just been printed for a subcollection
C1_Witness ==
    /\ out # <<>>
    /\ out[1].ev = "depth_limit"
    /\ Len(out[1].col) = 3
    /\ stack # <<>>

\* C2: without --no-limit no call visits more than limit_count documents of
\* its collection, however many the collection holds, and every call, at
\* every depth, runs with the no_limit of the command line.
C2_AtMostFivePerCollection ==
    /\ \A f \in Frames : f.no_limit = args.no_limit
    /\ ~args.no_limit =>
          /\ \A f \in Frames : f.doc_count <= limit_count
          /\ \A j \in DOMAIN out : out[j].ev = "doc_header" => out[j].doc <= limit_count

\* C2 witness: a subcollection holding more than limit_count documents, of
\* which limit_count have been visited
C2_Witness ==
    \E i \in DOMAIN stack :
        /\ i > 1
        /\ ~stack[i].no_limit
        /\ stack[i].remote > limit_count
        /\ stack[i].doc_count = limit_count

\* C3: a failure while fetching or iterating collection C is handled by the
\* call for C: the warning names C, that call returns (no further document
\* of C is visited) and its callers are exactly where a normal return of C
\* leaves them: the frames below are untouched, the list of root collections
\* and the position in it are untouched, the run goes on.  A call returns
\* without a warning only when it was stopped by the depth limit or has
\* visited every document its stream yields; the traversal can always take a
\* step, and it ends only with the closing banner and status 0.
C3_FailureStaysInCollection ==
    /\ [][(\E j \in DOMAIN out' : out'[j].ev = "warning") =>
            /\ stack # <<>>
            /\ out'[Len(out')].ev = "warning"
            /\ out'[Len(out')].col = Top.col
            /\ stack' = SubSeq(stack, 1, Len(stack) - 1)
            /\ rootIdx' = rootIdx
            /\ roots' = roots
            /\ pc' = "traverse"
            /\ exit_code' = NoExit]_vars
    /\ [][(Len(stack') < Len(stack) /\ ~(\E j \in DOMAIN out' : out'[j].ev = "warning")) =>
            \/ Top.phase = "call" /\ Top.depth > Top.max_depth
            \/ Top.phase = "iter" /\ Top.failAt = NoFail /\ Top.doc_count = Top.yield]_vars
    /\ [](pc = "traverse" => ENABLED Next)
    /\ []((pc = "exit" /\ roots > 0) =>
            /\ exit_code = 0
            /\ out = <<Msg("banner", actual_project_id)>>
            /\ rootIdx = roots
            /\ stack = <<>>)

\* C3 witness: a subcollection has just failed while its parent still has a
\* sibling subcollection or a document to go, and a root collection remains
C3_Witness ==
    /\ Printed("warning")
    /\ Len(out[Len(out)].col) = 3
    /\ stack # <<>>
    /\ Top.sub < Top.nsub \/ Top.doc_count < Top.yield
    /\ rootIdx < roots

\* C4: every document that is visited has its data printed right after its
\* header: a field whose serialization fails costs only that field.
C4_SerializationFailureIsPerValue ==
    \A j \in DOMAIN out :
        out[j].ev = "doc_header" =>
            /\ j < Len(out)
            /\ out[j + 1].ev = "doc_data"
            /\ out[j + 1].doc = out[j].doc

\* C5: a value equal to the server-timestamp sentinel is rendered as the
\* literal firestore.SERVER_TIMESTAMP.
C5_SentinelRendersLiteral ==
    (ret # NoResult /\ obj.eq = "true")
    => ret = Return("str", <<"firestore.SERVER_TIMESTAMP">>)

\* the UTC date-time of seconds + nanos/1e9, cut to milliseconds, then Z
ExpectedTimestampText(seconds, nanos) ==
    IsoSeconds(DateTime(seconds, 0, FALSE)) \o <<".">> \o Pad(nanos \div 1000000, 3)
    \o <<"Z">>

\* C6: a timestamp with seconds S and nanos N is rendered as the UTC ISO-8601
\* date-time of S + N/1e9 cut to milliseconds, directly followed by Z.
C6_TimestampRendersUtcMillisZ ==
    (ret # NoResult /\ IsTimestampLike(obj) /\ obj.hasSecs)
    => ret = Return("str", ExpectedTimestampText(obj.seconds, obj.nanos))

\* C7: with --project-id given and no app in the process, the project of the
\* connection, which the closing banner names, is the one given.
C7_ProjectOverrideTakesEffect ==
    (args.project_id # "" /\ actual_project_id # "")
    => /\ actual_project_id = args.project_id
       /\ \A j \in DOMAIN out : out[j].ev = "banner" => out[j].name = args.project_id

\* C8 as stated: the status is 1 exactly for the fatal startup failures and
\* 0 for every other run.
C8_ExitOneOrZero ==
    pc = "exit" => exit_code = (IF env.startup \in Fatal THEN 1 ELSE 0)

\* C8 amended: the status is 1 exactly for the fatal startup failures, 2 for
\* a command line the argument parser rejects and 0 for every other run: a
\* run that finds no root collection ends with status 0 after the no-data
\* notice without traversing anything, and failures met during the traversal
\* leave the status 0.
C8_ExitStatus ==
    /\ pc # "exit" => exit_code = NoExit
    /\ pc = "exit" =>
          /\ exit_code = (CASE env.startup \in Fatal -> 1
                            [] env.startup = "usage_error" -> 2
                            [] OTHER -> 0)
          /\ (env.startup = "none" /\ roots = 0) =>
                /\ out = <<Msg("no_collections", ""), Msg("complete_no_data", "")>>
                /\ rootIdx = 0
                /\ env.faults = 0 /\ env.subs = 0

\* C8 witness: a run ended with status 0 after a failure during the traversal
C8_Witness ==
    /\ pc = "exit"
    /\ exit_code = 0
    /\ env.faults > 0

\* C9: a call whose fetch succeeded with zero documents returns by printing
\* the empty-collection notice for its collection and nothing else; the
\* notice is printed only by a call that has visited no document, and a call
\* whose stream yields nothing never counts a document.
C9_EmptyNotice ==
    /\ [][(/\ stack # <<>>
           /\ Top.phase = "iter" /\ Top.yield = 0 /\ Top.failAt = NoFail
           /\ stack' # stack)
          => out' = <<Event("empty_notice", Top.col, 0, "", <<>>)>>]_vars
    /\ [][(\E j \in DOMAIN out' : out'[j].ev = "empty_notice") =>
            /\ stack # <<>>
            /\ Top.phase = "iter"
            /\ Top.doc_count = 0
            /\ out' = <<Event("empty_notice", Top.col, 0, "", <<>>)>>]_vars
    /\ [](\A f \in Frames : f.yield = 0 => f.doc_count = 0)

\* C9 witness: the notice has just been printed for a subcollection
C9_Witness ==
    /\ out # <<>>
    /\ out[1].ev = "empty_notice"
    /\ Len(out[1].col) = 3

\* the call stack is one branch of the tree: the i-th frame is at depth i-1
\* with the max_depth and no_limit of the command line, the first frame is
\* the current root collection, every other frame is the subcollection its
\* caller is at, under the document its caller is at
StackIsBranch ==
    \A i \in DOMAIN stack :
        /\ stack[i].depth = i - 1
        /\ stack[i].max_depth = args.max_depth
        /\ stack[i].no_limit = args.no_limit
        /\ i = 1 => stack[i].col = <<rootIdx>>
        /\ i > 1 =>
              /\ stack[i - 1].doc_count >= 1
              /\ stack[i - 1].sub >= 1
              /\ stack[i].col = stack[i - 1].col \o <<stack[i - 1].doc_count, stack[i - 1].sub>>
        /\ (i = Len(stack) /\ stack[i].phase = "iter") => stack[i].sub = stack[i].nsub

\* C10: the traversal is depth-first in store order.  A document is visited
\* only by the call on top of the stack, after every subcollection of the
\* previous document has been called and has returned; it is the next one of
\* the stream, and its header precedes its data, which precedes the notice
\* of its subcollections.  The subcollections are called in the order of the
\* list, one level deeper, with the same max_depth and no_limit, and only
\* after the data of their document was printed.
C10_DepthFirstStoreOrder ==
    /\ []StackIsBranch
    /\ [][(\E j \in DOMAIN out' : out'[j].ev \in {"doc_header", "doc_data", "check_subs"}) =>
            /\ stack # <<>>
            /\ Top.phase = "iter"
            /\ Top.sub = Top.nsub
            /\ out'[1] = Event("doc_header", Top.col, Top.doc_count + 1, "", <<>>)
            /\ \A j \in DOMAIN out' :
                  /\ out'[j].ev = "doc_data" => j = 2
                  /\ out'[j].ev = "check_subs" => j = 3 /\ out'[2].ev = "doc_data"
                  /\ j > 1 => out'[j].col = Top.col
            /\ Len(stack') <= Len(stack)]_vars
    /\ [][(Len(stack') > Len(stack) /\ stack # <<>>) =>
            /\ Len(stack') = Len(stack) + 1
            /\ Top.phase = "subs"
            /\ stack'[Len(stack')].col = Top.col \o <<Top.doc_count, Top.sub + 1>>
            /\ stack'[Len(stack')].depth = Top.depth + 1
            /\ stack'[Len(stack')].max_depth = Top.max_depth
            /\ stack'[Len(stack')].no_limit = Top.no_limit
            /\ stack'[Len(stack')].phase = "call"
            /\ stack'[Len(stack)].sub = Top.sub + 1
            /\ stack'[Len(stack)].doc_count = Top.doc_count
            /\ SubSeq(stack', 1, Len(stack) - 1) = SubSeq(stack, 1, Len(stack) - 1)]_vars

\* C10 witness: the second subcollection of a document is under way and its
\* collection has a further document to visit
C10_Witness ==
    /\ Len(stack) >= 2
    /\ stack[1].nsub = 2
    /\ stack[1].sub = 2
    /\ stack[1].doc_count < stack[1].yield
    /\ stack[2].phase = "iter"

============================================================================
